---- MODULE Spec2Model ----
(***************************************************************************)
(* Model of the listings API: the data-source selector (selectDataSource), *)
(* the SQL client middleware and the listing routes, and the in-memory     *)
(* query engine (getListingsList, getListingDetail, getRelatedListingData).*)
(*                                                                         *)
(* JavaScript strings are sequences of one-character strings, so that      *)
(* trim, toLowerCase, includes, Number and parseInt are computed rather    *)
(* than assumed.  An optional value (a query parameter, an optional field) *)
(* is a record [def, s]: def = FALSE is JavaScript's undefined.            *)
(***************************************************************************)
EXTENDS Integers, Sequences, FiniteSets, TLC

\* ------------------------------------------------------------------------
\* Bounds of the model
\* ------------------------------------------------------------------------
MaxLen == 3          \* longest collection handed to getListingsList
MaxRelated == 5      \* longest collection handed to getRelatedListingData

\* ------------------------------------------------------------------------
\* JavaScript values
\* ------------------------------------------------------------------------
Undef == [def |-> FALSE, s |-> <<>>]
Str(s) == [def |-> TRUE, s |-> s]

\* A JavaScript number: NaN or an integer.
NaN == [nan |-> TRUE, n |-> 0]
Num(n) == [nan |-> FALSE, n |-> n]

\* An absent numeric field of a listing (beds, area_m2, created_at).
NoField == -1

Digits == {"0", "1", "2", "3", "4", "5", "6", "7", "8", "9"}

DigitVal(ch) ==
    CASE ch = "0" -> 0 [] ch = "1" -> 1 [] ch = "2" -> 2 [] ch = "3" -> 3
      [] ch = "4" -> 4 [] ch = "5" -> 5 [] ch = "6" -> 6 [] ch = "7" -> 7
      [] ch = "8" -> 8 [] ch = "9" -> 9 [] OTHER -> 0

IsSpace(ch) == ch = " "

\* String.prototype.toLowerCase over the letters the model uses.
LowerChar(ch) ==
    CASE ch = "A" -> "a" [] ch = "B" -> "b" [] ch = "F" -> "f" [] OTHER -> ch

ToLowerCase(s) == [i \in 1..Len(s) |-> LowerChar(s[i])]

RECURSIVE TrimStart(_)
TrimStart(s) ==
    IF s # <<>> /\ IsSpace(Head(s)) THEN TrimStart(Tail(s)) ELSE s

RECURSIVE TrimEnd(_)
TrimEnd(s) ==
    IF s # <<>> /\ IsSpace(s[Len(s)]) THEN TrimEnd(SubSeq(s, 1, Len(s) - 1)) ELSE s

\* String.prototype.trim
Trim(s) == TrimEnd(TrimStart(s))

\* String.prototype.includes
Includes(s, q) ==
    \E i \in 0..(Len(s) - Len(q)) : SubSeq(s, i + 1, i + Len(q)) = q

RECURSIVE DecimalValue(_)
DecimalValue(s) ==
    IF s = <<>> THEN 0
    ELSE 10 * DecimalValue(SubSeq(s, 1, Len(s) - 1)) + DigitVal(s[Len(s)])

AllDigits(s) == \A i \in 1..Len(s) : s[i] \in Digits

\* Number(string): surrounding white space is dropped, the empty string is 0,
\* an optionally signed decimal literal is its value, anything else is NaN.
\* (The model's alphabet has no ".", "e", "x" prefix or "Infinity".)
NumberOf(s) ==
    LET t == Trim(s) IN
    IF t = <<>> THEN Num(0)
    ELSE IF AllDigits(t) THEN Num(DecimalValue(t))
    ELSE IF Head(t) \in {"-", "+"} /\ Len(t) > 1 /\ AllDigits(Tail(t))
         THEN Num((IF Head(t) = "-" THEN -1 ELSE 1) * DecimalValue(Tail(t)))
    ELSE NaN

RECURSIVE DigitPrefix(_)
DigitPrefix(s) ==
    IF s # <<>> /\ Head(s) \in Digits THEN <<Head(s)>> \o DigitPrefix(Tail(s)) ELSE <<>>

\* parseInt(string, 10): leading white space is skipped, an optional sign, then
\* the longest prefix of digits; NaN when there is no digit.
ParseInt(s) ==
    LET t == TrimStart(s)
        neg == t # <<>> /\ Head(t) = "-"
        u == IF t # <<>> /\ Head(t) \in {"-", "+"} THEN Tail(t) ELSE t
        d == DigitPrefix(u)
    IN IF d = <<>> THEN NaN
       ELSE Num((IF neg THEN -1 ELSE 1) * DecimalValue(d))

Abs(n) == IF n < 0 THEN -n ELSE n

\* The elements of an array.
Elems(seq) == {seq[i] : i \in 1..Len(seq)}

\* Array.prototype.filter: keep is the callback, a function of the element.
Filter(seq, keep) ==
    LET F[i \in 0..Len(seq)] ==
            IF i = 0 THEN <<>>
            ELSE F[i - 1] \o (IF keep[seq[i]] THEN <<seq[i]>> ELSE <<>>)
    IN F[Len(seq)]

\* Array.prototype.slice(0, n)
Slice(seq, n) == SubSeq(seq, 1, IF Len(seq) < n THEN Len(seq) ELSE n)

\* One insertion of the engine's stable sort: x goes before the first element
\* the comparator puts after it, hence after every element that compares equal.
InsertSorted(sorted, x, cmp) ==
    LET after == {j \in 1..Len(sorted) : cmp[sorted[j], x] > 0}
        k == IF after = {} THEN Len(sorted) + 1
             ELSE CHOOSE j \in after : \A m \in after : j <= m
    IN SubSeq(sorted, 1, k - 1) \o <<x>> \o SubSeq(sorted, k, Len(sorted))

\* Array.prototype.sort(compare), stable (ECMAScript 2019): cmp is the
\* comparator, a function of two elements.
SortArray(seq, cmp) ==
    LET S[i \in 0..Len(seq)] ==
            IF i = 0 THEN <<>> ELSE InsertSorted(S[i - 1], seq[i], cmp)
    IN S[Len(seq)]

\* ------------------------------------------------------------------------
\* Responses
\* ------------------------------------------------------------------------
\* The value of a response field that the JSON body does not have.
NoValue == "undefined"

SPACE == <<" ">>

\* Mutant of NotFoundResponse: the { status: 404 } argument is forgotten.
NotFoundWithoutStatus ==
    [status |-> 200, source |-> NoValue, body |-> [error |-> "Listing not found"]]

\* Response.json({ error: "Listing not found" }, { status: 404 })
NotFoundResponse ==
    [status |-> 404, source |-> NoValue, body |-> [error |-> "Listing not found"]]

\* Response.json({ error: "Not implemented" }, { status: 501 })
NotImplementedResponse ==
    [status |-> 501, source |-> NoValue, body |-> [error |-> "Not implemented"]]

\* Response.json({ ...body, source }): status 200.  The source field of the
\* JSON object is kept beside the rest of the body.
OkResponse(source, body) ==
    [status |-> 200, source |-> source, body |-> body]

\* ------------------------------------------------------------------------
\* listingsMockUtils.getListingsList
\* ------------------------------------------------------------------------
\* (filters.q || "").toString().trim().toLowerCase()
QueryText(filters) ==
    ToLowerCase(Trim(IF filters.q.def THEN filters.q.s ELSE <<>>))

\* `${x.title} ${x.city} ${x.address || ""} ${x.type}`.toLowerCase()
SearchText(x) ==
    ToLowerCase(x.title \o SPACE \o x.city \o SPACE
                \o (IF x.address.def THEN x.address.s ELSE <<>>) \o SPACE \o x.type)

FilterByQ(results, filters) ==
    LET q == QueryText(filters)
        keep == [x \in Elems(results) |-> Includes(SearchText(x), q)]
    IN IF q # <<>> THEN Filter(results, keep) ELSE results

FilterByCity(results, filters) ==
    LET keep == [x \in Elems(results) |-> x.city = filters.city.s]
    IN IF filters.city.def /\ filters.city.s # <<>> THEN Filter(results, keep) ELSE results

FilterByType(results, filters) ==
    LET keep == [x \in Elems(results) |-> x.type = filters.type.s]
    IN IF filters.type.def /\ filters.type.s # <<>> THEN Filter(results, keep) ELSE results

\* Mutant of NumericParam: the p !== "" test is missing, so "" becomes Number("").
NumericParamEmptyIsNumber(p) ==
    IF p.def THEN [null |-> FALSE, v |-> NumberOf(p.s)]
    ELSE [null |-> TRUE, v |-> Num(0)]

\* p !== undefined && p !== null && p !== "" ? Number(p) : null
NumericParam(p) ==
    IF p.def /\ p.s # <<>> THEN [null |-> FALSE, v |-> NumberOf(p.s)]
    ELSE [null |-> TRUE, v |-> Num(0)]

\* v !== null && !Number.isNaN(v)
StageApplies(np) == ~np.null /\ ~np.v.nan

\* Mutant of FilterByMinPrice: the lower bound is exclusive.
FilterByMinPriceExclusive(results, filters) ==
    LET minPrice == NumericParam(filters.minPrice)
        keep == [x \in Elems(results) |-> x.price > minPrice.v.n]
    IN IF StageApplies(minPrice) THEN Filter(results, keep) ELSE results

FilterByMinPrice(results, filters) ==
    LET minPrice == NumericParam(filters.minPrice)
        keep == [x \in Elems(results) |-> x.price >= minPrice.v.n]
    IN IF StageApplies(minPrice) THEN Filter(results, keep) ELSE results

FilterByMaxPrice(results, filters) ==
    LET maxPrice == NumericParam(filters.maxPrice)
        keep == [x \in Elems(results) |-> x.price <= maxPrice.v.n]
    IN IF StageApplies(maxPrice) THEN Filter(results, keep) ELSE results

\* x.f || 0 for an optional numeric field
OrZero(n) == IF n = NoField THEN 0 ELSE n

FilterByBeds(results, filters) ==
    LET beds == NumericParam(filters.beds)
        keep == [x \in Elems(results) |-> OrZero(x.beds) >= beds.v.n]
    IN IF StageApplies(beds) THEN Filter(results, keep) ELSE results

\* switch (filters.sort): the sort is in place on the results array.  The
\* sort key is only compared, so it is kept as a plain string.
SortResults(results, filters) ==
    LET E == Elems(results)
        priceAsc == [a \in E, b \in E |-> a.price - b.price]
        priceDesc == [a \in E, b \in E |-> b.price - a.price]
        areaDesc == [a \in E, b \in E |-> OrZero(b.area_m2) - OrZero(a.area_m2)]
        newest == [a \in E, b \in E |-> OrZero(b.created_at) - OrZero(a.created_at)]
    IN CASE filters.sort = "price_asc" -> SortArray(results, priceAsc)
         [] filters.sort = "price_desc" -> SortArray(results, priceDesc)
         [] filters.sort = "area_desc" -> SortArray(results, areaDesc)
         [] filters.sort = "newest" -> SortArray(results, newest)
         [] OTHER -> results

\* The filter pipeline over the copy [...c.env.MOCK_DATA].
FilterPipeline(data, filters) ==
    FilterByBeds(
      FilterByMaxPrice(
        FilterByMinPrice(
          FilterByType(
            FilterByCity(
              FilterByQ(data, filters), filters), filters), filters), filters), filters)

\* The response, and what c.env.MOCK_DATA holds afterwards: the pipeline and
\* the sort work on the spread copy, never on the source array.
GetListingsList(data, filters) ==
    [res |-> OkResponse("mock",
                [listings |-> SortResults(FilterPipeline(data, filters), filters)]),
     MOCK_DATA |-> data]

\* ------------------------------------------------------------------------
\* find by id, listingsMockUtils.getListingDetail
\* ------------------------------------------------------------------------
\* c.env.MOCK_DATA.find((x) => x.id === listingIdNum): the index, 0 when none.
FindById(data, idNum) ==
    LET hits == {i \in 1..Len(data) : ~idNum.nan /\ data[i].id = idNum.n}
    IN IF hits = {} THEN 0 ELSE CHOOSE i \in hits : \A j \in hits : i <= j

GetListingDetail(data, listingId) ==
    LET at == FindById(data, ParseInt(listingId))
    IN IF at = 0 THEN NotFoundResponse ELSE OkResponse("mock", [listing |-> data[at]])

\* ------------------------------------------------------------------------
\* listingRelatedMockUtils.getRelatedListingData
\* ------------------------------------------------------------------------
\* .slice(0, 3)
RelatedLimit == 3

\* Mutant of RelatedInCity: the x.id !== listingIdNum test is missing.
RelatedInCityWithTarget(data, listing) ==
    LET keep == [x \in Elems(data) |-> x.city = listing.city]
    IN Slice(Filter(data, keep), RelatedLimit)

RelatedInCity(data, listing) ==
    LET keep == [x \in Elems(data) |-> x.city = listing.city /\ x.id # listing.id]
    IN Slice(Filter(data, keep), RelatedLimit)

RelatedByType(data, listing) ==
    LET keep == [x \in Elems(data) |-> x.type = listing.type /\ x.id # listing.id]
    IN Slice(Filter(data, keep), RelatedLimit)

\* Mutant of SimilarPrice: sort is called on c.env.MOCK_DATA itself, before filter.
SimilarPriceSortsSource(data, listing) ==
    LET E == Elems(data)
        keep == [x \in E |-> x.id # listing.id]
        byDistance == [a \in E, b \in E |->
                         Abs(a.price - listing.price) - Abs(b.price - listing.price)]
        sorted == SortArray(data, byDistance)
    IN [value |-> Slice(Filter(sorted, keep), RelatedLimit),
        MOCK_DATA |-> sorted]

\* filter gives a fresh array, sort orders that array in place, slice copies
\* its head: the result, and what c.env.MOCK_DATA holds afterwards.
SimilarPrice(data, listing) ==
    LET E == Elems(data)
        keep == [x \in E |-> x.id # listing.id]
        byDistance == [a \in E, b \in E |->
                         Abs(a.price - listing.price) - Abs(b.price - listing.price)]
    IN [value |-> Slice(SortArray(Filter(data, keep), byDistance), RelatedLimit),
        MOCK_DATA |-> data]

\* const o = {}; keys.forEach((k) => { o[k] = (o[k] || 0) + 1; }): the own
\* properties as [key, count] pairs in the order they were created.  (The
\* keys of the model are never names of Object.prototype members, for which
\* o[k] is not undefined at first.)
Tally(keys) ==
    LET T[i \in 0..Len(keys)] ==
            IF i = 0 THEN <<>>
            ELSE LET k == keys[i]
                     o == T[i - 1]
                     at == {j \in 1..Len(o) : o[j].key = k}
                 IN IF at = {} THEN Append(o, [key |-> k, count |-> 1])
                    ELSE [j \in 1..Len(o) |->
                            IF j \in at THEN [key |-> k, count |-> o[j].count + 1]
                            ELSE o[j]]
    IN T[Len(keys)]

\* A property key that is an array index: the canonical decimal string of an
\* integer below 2^32 - 1.  (Keys of ten digits, where that limit falls, are
\* not among the model's keys; every key of up to nine digits is below it.)
IsArrayIndex(k) ==
    /\ k # <<>>
    /\ AllDigits(k)
    /\ (Len(k) = 1 \/ k[1] # "0")
    /\ Len(k) <= 9

\* Object.entries(o): own keys that are array indices first, in ascending
\* numeric order, then the other string keys in creation order.
ObjectEntries(o) ==
    LET E == Elems(o)
        isIndex == [e \in E |-> IsArrayIndex(e.key)]
        notIndex == [e \in E |-> ~IsArrayIndex(e.key)]
        ascending == [a \in E, b \in E |-> DecimalValue(a.key) - DecimalValue(b.key)]
    IN SortArray(Filter(o, isIndex), ascending) \o Filter(o, notIndex)

\* Object.entries(o).map(...).sort((a, b) => b.count - a.count)
Stats(keys) ==
    LET entries == ObjectEntries(Tally(keys))
        E == Elems(entries)
        byCountDesc == [a \in E, b \in E |-> b.count - a.count]
    IN SortArray(entries, byCountDesc)

CityStats(data) ==
    LET s == Stats([i \in 1..Len(data) |-> data[i].city])
    IN [k \in 1..Len(s) |-> [city |-> s[k].key, count |-> s[k].count]]

TypeStats(data) ==
    LET s == Stats([i \in 1..Len(data) |-> data[i].type])
    IN [k \in 1..Len(s) |-> [type |-> s[k].key, count |-> s[k].count]]

\* The response, and what c.env.MOCK_DATA holds afterwards.
GetRelatedListingData(data, listingId) ==
    LET at == FindById(data, ParseInt(listingId))
        listing == data[at]
        similar == SimilarPrice(data, listing)
    IN IF at = 0 THEN [res |-> NotFoundResponse, MOCK_DATA |-> data]
       ELSE [res |-> OkResponse("mock",
                        [listingId |-> listingId,
                         listingCity |-> listing.city,
                         listingType |-> listing.type,
                         relatedInCity |-> RelatedInCity(data, listing),
                         relatedByType |-> RelatedByType(data, listing),
                         similarPrice |-> similar.value,
                         cityStats |-> CityStats(similar.MOCK_DATA),
                         typeStats |-> TypeStats(similar.MOCK_DATA)]),
             MOCK_DATA |-> similar.MOCK_DATA]

\* ------------------------------------------------------------------------
\* Listings
\* ------------------------------------------------------------------------
Listing(id, title, city, address, type, price, beds, area, created) ==
    [id |-> id, title |-> title, city |-> city, address |-> address, type |-> type,
     price |-> price, beds |-> beds, area_m2 |-> area, created_at |-> created]

A == <<"A">>
B == <<"B">>
FLAT == <<"f", "l", "a", "t">>
HOUSE == <<"h", "o", "u", "s", "e">>

\* The mock dataset the worker imports (mockListings).
MockListings ==
    << Listing(1, <<"a">>, A, Undef, FLAT, 100, NoField, NoField, NoField),
       Listing(2, <<"b">>, A, Undef, HOUSE, 200, NoField, NoField, NoField),
       Listing(3, <<"c">>, B, Undef, FLAT, 150, NoField, NoField, NoField) >>

NoFilters ==
    [q |-> Undef, city |-> Undef, type |-> Undef, minPrice |-> Undef,
     maxPrice |-> Undef, beds |-> Undef, sort |-> NoValue]

\* ------------------------------------------------------------------------
\* State
\* ------------------------------------------------------------------------
VARIABLES
    bindings,   \* the deployment's bindings: HYPERDRIVE and DB present or not
    env,        \* c.env: SQL, DB_AVAILABLE, MOCK_DATA (set or not)
    req,        \* the request being served
    pc,         \* where the request is: idle, middleware, select, respond, after, done
    branch,     \* the branch selectDataSource took for this request
    dbRun,      \* the dbLogic call: [state, result]
    mockRun,    \* the mockLogic call: [state, result]
    dbStarts,   \* calls of dbLogic made for this request
    mockStarts, \* calls of mockLogic made for this request
    logs,       \* console output of this request
    ret,        \* what selectDataSource gave its caller: a value or an error
    res,        \* the response the client gets
    dataset,    \* the listing collection behind c.env.MOCK_DATA
    call        \* the last direct call of the query engine:
                \* [op, filters, id, data (the collection as it was), res]

vars == <<bindings, env, req, pc, branch, dbRun, mockRun, dbStarts, mockStarts,
          logs, ret, res, dataset, call>>

selectorVars == <<bindings, env, req, pc, branch, dbRun, mockRun, dbStarts,
                  mockStarts, logs, ret, res>>

NoResponse == [status |-> 0, source |-> NoValue, body |-> [none |-> TRUE]]

\* Hono's default error handler: c.text("Internal Server Error", 500)
InternalServerError ==
    [status |-> 500, source |-> NoValue, body |-> [text |-> "Internal Server Error"]]

NotRun == [state |-> "none", result |-> NoResponse]
NoReturn == [kind |-> "none", value |-> NoResponse, from |-> "none"]
NoCall ==
    [op |-> "none", filters |-> NoFilters, id |-> <<>>, data |-> <<>>, res |-> NoResponse]
NoRequest == [route |-> "none", source |-> NoValue, id |-> <<>>, filters |-> NoFilters]

FreshEnv(b) == [SQL |-> "unset", DB |-> b.DB, DB_AVAILABLE |-> "unset", MOCK_DATA |-> FALSE]

LOG_NO_DB == "No database connection available. Using mock data."
LOG_CONNECT == "Database connection error:"
LOG_FALLBACK == "DB logic failed, falling back to mock data:"

\* The requests: a route, the source parameter, the :id parameter, the filters.
Sources == {NoValue, "mock", "db", "MOCK"}
Ids == {<<"1">>, <<"9">>, <<"x">>}
CityA == [NoFilters EXCEPT !.city = Str(A)]

Requests ==
    {[route |-> "list", source |-> s, id |-> <<>>, filters |-> f] :
        s \in Sources, f \in {NoFilters, CityA}}
    \cup {[route |-> r, source |-> s, id |-> i, filters |-> NoFilters] :
        r \in {"detail", "related"}, s \in Sources, i \in Ids}

\* ------------------------------------------------------------------------
\* selectDataSource
\* ------------------------------------------------------------------------
\* c.req.query("source") || c.req.query()?.source
SourceParam(r) == r.source

\* Boolean(c?.env && (c.env.SQL || c.env.DB))
HasDb(e) == e.SQL # "unset" \/ e.DB

\* Mutant of SelectBranch: availability is looked at before the overrides.
SelectBranchAvailabilityFirst(sourceParam, hasDb) ==
    IF ~hasDb THEN "no-db"
    ELSE IF sourceParam = "mock" THEN "forced-mock"
    ELSE IF sourceParam = "db" THEN "forced-db"
    ELSE "try-db"

\* The branch the function takes: the overrides first, then availability.
SelectBranch(sourceParam, hasDb) ==
    IF sourceParam = "mock" THEN "forced-mock"
    ELSE IF sourceParam = "db" THEN "forced-db"
    ELSE IF ~hasDb THEN "no-db"
    ELSE "try-db"

\* Mutant of SelectStep: no catch around the database call.
SelectStepNoCatch(br, db, mock) ==
    IF db = "running" \/ mock = "running" THEN "await"
    ELSE IF mock = "returned" THEN "return-mock"
    ELSE IF mock = "failed" THEN "throw-mock"
    ELSE IF db = "returned" THEN "return-db"
    ELSE IF db = "failed" THEN "throw-db"
    ELSE IF br \in {"forced-mock", "no-db"} THEN "call-mock"
    ELSE "call-db"

\* Mutant of SelectStep: the database call is not awaited before the mock
\* handler is started.
SelectStepSpeculative(br, db, mock) ==
    IF br = "try-db" /\ db = "running" /\ mock = "none" THEN "call-mock"
    ELSE IF db = "running" \/ mock = "running" THEN "await"
    ELSE IF mock = "returned" THEN "return-mock"
    ELSE IF mock = "failed" THEN "throw-mock"
    ELSE IF db = "returned" THEN "return-db"
    ELSE IF db = "failed" THEN (IF br = "try-db" THEN "catch" ELSE "throw-db")
    ELSE IF br \in {"forced-mock", "no-db"} THEN "call-mock"
    ELSE "call-db"

\* What the function does next, given its branch and the state of the two
\* handler calls: every call is awaited; only the try-db branch catches.
SelectStep(br, db, mock) ==
    IF db = "running" \/ mock = "running" THEN "await"
    ELSE IF mock = "returned" THEN "return-mock"
    ELSE IF mock = "failed" THEN "throw-mock"
    ELSE IF db = "returned" THEN "return-db"
    ELSE IF db = "failed" THEN (IF br = "try-db" THEN "catch" ELSE "throw-db")
    ELSE IF br \in {"forced-mock", "no-db"} THEN "call-mock"
    ELSE "call-db"

\* ------------------------------------------------------------------------
\* The route handlers' dbLogic and mockLogic
\* ------------------------------------------------------------------------
\* What the database answers to a query that succeeds.
DbRows == {<<>>, <<MockListings[1]>>, MockListings}

\* dbLogic of a route, the query having given rows.  The related route's
\* dbLogic makes no query and answers 501.
DbLogicResult(r, rows) ==
    CASE r.route = "related" -> NotImplementedResponse
      [] r.route = "list" -> OkResponse("database", [listings |-> rows])
      [] OTHER -> IF Len(rows) = 0 THEN NotFoundResponse
                  ELSE OkResponse("database", [listing |-> rows[1]])

\* dbLogic can fail: it calls c2.env.SQL as a function (a TypeError when SQL
\* is not set) and awaits the query (which can reject).  The related route's
\* dbLogic touches nothing.
DbLogicCanThrow(r, e) == r.route # "related"

\* dbLogic can return: the related route always; the others when SQL is a live client.
DbLogicCanReturn(r, e) == r.route = "related" \/ e.SQL = "live"

\* mockLogic of a route over the collection behind c.env.MOCK_DATA.
MockLogicResult(r, data) ==
    CASE r.route = "list" -> GetListingsList(data, r.filters).res
      [] r.route = "detail" -> GetListingDetail(data, r.id)
      [] OTHER -> GetRelatedListingData(data, r.id).res

\* ------------------------------------------------------------------------
\* Actions: one request through the middleware, the route and selectDataSource
\* ------------------------------------------------------------------------
Init ==
    /\ bindings \in [HYPERDRIVE : BOOLEAN, DB : BOOLEAN]
    /\ env = FreshEnv(bindings)
    /\ req = NoRequest
    /\ pc = "idle"
    /\ branch = "none"
    /\ dbRun = NotRun
    /\ mockRun = NotRun
    /\ dbStarts = 0
    /\ mockStarts = 0
    /\ logs = <<>>
    /\ ret = NoReturn
    /\ res = NoResponse
    /\ dataset = MockListings
    /\ call = NoCall

\* A request arrives.  The env object is the isolate's: it is the one earlier
\* requests wrote to, or a fresh one when the isolate is new.
BeginRequest(r, fresh) ==
    /\ pc \in {"idle", "done"}
    /\ req' = r
    /\ env' = IF fresh THEN FreshEnv(bindings) ELSE env
    /\ pc' = "middleware"
    /\ branch' = "none"
    /\ dbRun' = NotRun
    /\ mockRun' = NotRun
    /\ dbStarts' = 0
    /\ mockStarts' = 0
    /\ logs' = <<>>
    /\ ret' = NoReturn
    /\ res' = NoResponse
    /\ UNCHANGED <<bindings, dataset, call>>

\* Middleware, HYPERDRIVE bound, postgres() gives a client.
MiddlewareConnect ==
    /\ pc = "middleware"
    /\ bindings.HYPERDRIVE
    /\ env' = [env EXCEPT !.SQL = "live", !.DB_AVAILABLE = "true"]
    /\ pc' = "select"
    /\ UNCHANGED <<bindings, req, branch, dbRun, mockRun, dbStarts, mockStarts,
                   logs, ret, res, dataset, call>>

\* Middleware, HYPERDRIVE bound, postgres() throws: the catch block.
MiddlewareConnectFails ==
    /\ pc = "middleware"
    /\ bindings.HYPERDRIVE
    /\ logs' = Append(logs, LOG_CONNECT)
    /\ env' = [env EXCEPT !.DB_AVAILABLE = "false", !.MOCK_DATA = TRUE]
    /\ pc' = "select"
    /\ UNCHANGED <<bindings, req, branch, dbRun, mockRun, dbStarts, mockStarts,
                   ret, res, dataset, call>>

\* Middleware, no HYPERDRIVE binding.
MiddlewareNoBinding ==
    /\ pc = "middleware"
    /\ ~bindings.HYPERDRIVE
    /\ logs' = Append(logs, LOG_NO_DB)
    /\ env' = [env EXCEPT !.DB_AVAILABLE = "false", !.MOCK_DATA = TRUE]
    /\ pc' = "select"
    /\ UNCHANGED <<bindings, req, branch, dbRun, mockRun, dbStarts, mockStarts,
                   ret, res, dataset, call>>

\* selectDataSource is entered: the branch is decided.
EnterSelect ==
    /\ pc = "select"
    /\ branch = "none"
    /\ branch' = SelectBranch(SourceParam(req), HasDb(env))
    /\ UNCHANGED <<bindings, env, req, pc, dbRun, mockRun, dbStarts, mockStarts,
                   logs, ret, res, dataset, call>>

Step == SelectStep(branch, dbRun.state, mockRun.state)

\* await mockLogic(c) is started.
CallMock ==
    /\ pc = "select" /\ branch # "none"
    /\ Step = "call-mock"
    /\ mockRun' = [state |-> "running", result |-> NoResponse]
    /\ mockStarts' = mockStarts + 1
    /\ UNCHANGED <<bindings, env, req, pc, branch, dbRun, dbStarts, logs, ret, res,
                   dataset, call>>

\* await dbLogic(c) is started.
CallDb ==
    /\ pc = "select" /\ branch # "none"
    /\ Step = "call-db"
    /\ dbRun' = [state |-> "running", result |-> NoResponse]
    /\ dbStarts' = dbStarts + 1
    /\ UNCHANGED <<bindings, env, req, pc, branch, mockRun, mockStarts, logs, ret, res,
                   dataset, call>>

\* catch (err): the failure is logged and mockLogic is started.
CatchAndFallBack ==
    /\ pc = "select" /\ branch # "none"
    /\ Step = "catch"
    /\ logs' = Append(logs, LOG_FALLBACK)
    /\ mockRun' = [state |-> "running", result |-> NoResponse]
    /\ mockStarts' = mockStarts + 1
    /\ UNCHANGED <<bindings, env, req, pc, branch, dbRun, dbStarts, ret, res,
                   dataset, call>>

\* dbLogic returns a response.
DbLogicReturns(rows) ==
    /\ dbRun.state = "running"
    /\ DbLogicCanReturn(req, env)
    /\ dbRun' = [state |-> "returned", result |-> DbLogicResult(req, rows)]
    /\ UNCHANGED <<bindings, env, req, pc, branch, mockRun, dbStarts, mockStarts,
                   logs, ret, res, dataset, call>>

\* dbLogic throws or its promise rejects.
DbLogicThrows ==
    /\ dbRun.state = "running"
    /\ DbLogicCanThrow(req, env)
    /\ dbRun' = [state |-> "failed", result |-> NoResponse]
    /\ UNCHANGED <<bindings, env, req, pc, branch, mockRun, dbStarts, mockStarts,
                   logs, ret, res, dataset, call>>

\* mockLogic returns a response: c.env.MOCK_DATA is set.
MockLogicReturns ==
    /\ mockRun.state = "running"
    /\ env.MOCK_DATA
    /\ mockRun' = [state |-> "returned", result |-> MockLogicResult(req, dataset)]
    /\ UNCHANGED <<bindings, env, req, pc, branch, dbRun, dbStarts, mockStarts,
                   logs, ret, res, dataset, call>>

\* mockLogic throws: c.env.MOCK_DATA is undefined, so spreading it or calling
\* find on it is a TypeError.
MockLogicThrows ==
    /\ mockRun.state = "running"
    /\ ~env.MOCK_DATA
    /\ mockRun' = [state |-> "failed", result |-> NoResponse]
    /\ UNCHANGED <<bindings, env, req, pc, branch, dbRun, dbStarts, mockStarts,
                   logs, ret, res, dataset, call>>

\* selectDataSource returns the awaited handler's response.
ReturnFromSelect ==
    /\ pc = "select" /\ branch # "none"
    /\ Step \in {"return-mock", "return-db"}
    /\ ret' = IF Step = "return-mock"
              THEN [kind |-> "value", value |-> mockRun.result, from |-> "mock"]
              ELSE [kind |-> "value", value |-> dbRun.result, from |-> "db"]
    /\ pc' = "respond"
    /\ UNCHANGED <<bindings, env, req, branch, dbRun, mockRun, dbStarts, mockStarts,
                   logs, res, dataset, call>>

\* selectDataSource rejects with the awaited handler's error.
ThrowFromSelect ==
    /\ pc = "select" /\ branch # "none"
    /\ Step \in {"throw-mock", "throw-db"}
    /\ ret' = [kind |-> "error", value |-> NoResponse,
               from |-> IF Step = "throw-mock" THEN "mock" ELSE "db"]
    /\ pc' = "respond"
    /\ UNCHANGED <<bindings, env, req, branch, dbRun, mockRun, dbStarts, mockStarts,
                   logs, res, dataset, call>>

\* The framework turns the route handler's outcome into the response: its
\* value, or 500 from the error handler when it rejected.  Then the
\* middleware's code after next() runs: in the try branch the SQL client is ended.
Respond ==
    /\ pc = "respond"
    /\ res' = IF ret.kind = "value" THEN ret.value ELSE InternalServerError
    /\ env' = IF env.SQL = "live" /\ bindings.HYPERDRIVE /\ env.DB_AVAILABLE = "true"
              THEN [env EXCEPT !.SQL = "ended"] ELSE env
    /\ pc' = "done"
    /\ UNCHANGED <<bindings, req, branch, dbRun, mockRun, dbStarts, mockStarts,
                   logs, ret, dataset, call>>

Next ==
    \/ \E r \in Requests, fresh \in BOOLEAN : BeginRequest(r, fresh)
    \/ MiddlewareConnect
    \/ MiddlewareConnectFails
    \/ MiddlewareNoBinding
    \/ EnterSelect
    \/ CallMock
    \/ CallDb
    \/ CatchAndFallBack
    \/ \E rows \in DbRows : DbLogicReturns(rows)
    \/ DbLogicThrows
    \/ MockLogicReturns
    \/ MockLogicThrows
    \/ ReturnFromSelect
    \/ ThrowFromSelect
    \/ Respond

Spec == Init /\ [][Next]_vars

\* ------------------------------------------------------------------------
\* The selector and the routes: claims C1 to C5, under Spec
\* ------------------------------------------------------------------------
Logged(msg) == \E i \in 1..Len(logs) : logs[i] = msg

NoOverride == SourceParam(req) \notin {"mock", "db"}

InSelect == pc \in {"select", "respond", "done"} /\ branch # "none"

\* C1: in a request with no source override and a database binding present
\* (env.SQL or env.DB), once the database handler has failed: the mock handler
\* is started only after the failure was logged; what selectDataSource gives
\* its caller comes from the mock handler, never from the database handler;
\* and when the mock handler returned, it is exactly the mock handler's result.
C1_FallbackReturnsMockResult ==
    (InSelect /\ NoOverride /\ HasDb(env) /\ dbRun.state = "failed") =>
        /\ mockRun.state # "none" => Logged(LOG_FALLBACK)
        /\ ret.kind # "none" => (ret.from = "mock" /\ mockStarts = 1)
        /\ (ret.kind # "none" /\ mockRun.state = "returned") =>
               ret = [kind |-> "value", value |-> mockRun.result, from |-> "mock"]

\* C1 witness: the database handler failed, the failure was logged, the mock
\* handler returned and its result went back to the caller.
C1_Witness ==
    /\ pc = "done" /\ NoOverride /\ HasDb(env)
    /\ dbRun.state = "failed" /\ mockRun.state = "returned"
    /\ Logged(LOG_FALLBACK)
    /\ ret.kind = "value" /\ ret.value = mockRun.result /\ res.source = "mock"

\* C2: with source=mock the database handler is never started, whatever the
\* availability, and the outcome is the mock handler's; with source=db the
\* mock handler is never started, and a failure of the database handler is the
\* error the caller gets.
C2_OverrideInvokesOnlyNamedHandler ==
    /\ (InSelect /\ SourceParam(req) = "mock") =>
           /\ dbStarts = 0 /\ dbRun.state = "none"
           /\ ret.kind # "none" => (mockStarts = 1 /\ ret.from = "mock")
    /\ (InSelect /\ SourceParam(req) = "db") =>
           /\ mockStarts = 0 /\ mockRun.state = "none"
           /\ ret.kind # "none" => (dbStarts = 1 /\ ret.from = "db")
           /\ (ret.kind # "none" /\ dbRun.state = "failed") => ret.kind = "error"

\* C2 witness: source=db, the database handler failed, the caller got the
\* error and the mock handler never ran.
C2_Witness ==
    /\ pc = "done" /\ SourceParam(req) = "db"
    /\ dbRun.state = "failed" /\ ret.kind = "error" /\ mockStarts = 0

\* C3: on the listings route with HYPERDRIVE bound and env.SQL set by the
\* middleware, a request with no override whose database branch threw ends
\* with a response of source "mock", a log entry and a status that is not 5xx.
\* (The claim is stated for the list route, which has no not-found outcome.)
C3_FallbackResponseIsValidMock ==
    ( /\ pc = "done" /\ req.route = "list" /\ NoOverride
      /\ bindings.HYPERDRIVE /\ env.DB_AVAILABLE = "true" /\ env.SQL # "unset"
      /\ dbRun.state = "failed" ) =>
        /\ res.source = "mock"
        /\ Logged(LOG_FALLBACK)
        /\ res.status = 200

\* C4: the database handler is started at most once per request, the two
\* handlers never run at the same time, and the mock handler is started only
\* when the database handler was not started or has failed.
C4_OneDbAttemptNoOverlap ==
    /\ dbStarts <= 1
    /\ ~(dbRun.state = "running" /\ mockRun.state = "running")
    /\ mockStarts > 0 => dbRun.state \in {"none", "failed"}
    /\ mockRun.state # "none" => mockStarts > 0
    /\ dbRun.state # "none" => dbStarts > 0

\* C4 witness: the mock handler runs after the single database attempt failed.
C4_Witness ==
    /\ mockRun.state = "running" /\ dbRun.state = "failed"
    /\ dbStarts = 1 /\ mockStarts = 1

\* C5, as claimed: every response a listing endpoint produces, not-found
\* outcomes included, has source "database" or "mock".
C5_EveryResponseHasSource ==
    (pc = "done" /\ ret.kind = "value") => res.source \in {"database", "mock"}

\* C5, amended: a response a listing endpoint produces has source "database"
\* or "mock" exactly when its status is 200; the others are the 404 not-found
\* and the 501 not-implemented responses, which carry no source.
C5_SuccessResponseHasSource ==
    (pc = "done" /\ ret.kind = "value") =>
        /\ res.status = 200 <=> res.source \in {"database", "mock"}
        /\ res.status # 200 => (res.status \in {404, 501} /\ res.source = NoValue)
        /\ ret.from = "mock" => res.source \in {"mock", NoValue}
        /\ ret.from = "db" => res.source \in {"database", NoValue}

\* C5 witness: a not-found outcome of the mock path reached the client.
C5_Witness ==
    /\ pc = "done" /\ ret.kind = "value" /\ ret.from = "mock"
    /\ res.status = 404 /\ res.source = NoValue

\* ------------------------------------------------------------------------
\* The query engine called directly: getListingsList
\* ------------------------------------------------------------------------
\* The listings the mock dataset provider can supply for the search calls.
SearchPool ==
    { Listing(1, <<"B", "a">>, B, Undef, FLAT, 1, NoField, NoField, NoField),
      Listing(2, <<"b">>, A, Str(<<"a", "b">>), HOUSE, 2, 1, 3, 5),
      Listing(3, <<"b">>, B, Str(<<>>), FLAT, 0, 2, 1, 9),
      Listing(4, <<"A", "b">>, A, Undef, HOUSE, 2, 0, NoField, 5) }

\* The query parameters, as the transport layer hands them over: strings.
TextFilters ==
    {[NoFilters EXCEPT !.q = q, !.city = c, !.type = ty, !.sort = s] :
        q \in {Undef, Str(<<>>), Str(<<" ">>), Str(<<"A", "B">>), Str(<<" ", "b">>)},
        c \in {Undef, Str(<<>>), Str(A), Str(<<"a">>)},
        ty \in {Undef, Str(FLAT)},
        s \in {NoValue, "bogus"}}

NumericFilters ==
    {[NoFilters EXCEPT !.minPrice = lo, !.maxPrice = hi, !.beds = b] :
        lo \in {Undef, Str(<<>>), Str(<<"x">>), Str(<<"1">>), Str(<<" ">>)},
        hi \in {Undef, Str(<<>>), Str(<<"1", "x">>), Str(<<"1">>), Str(<<" ">>)},
        b \in {Undef, Str(<<>>), Str(<<"x">>), Str(<<"1">>), Str(<<" ", "2">>)}}

SortedFilters ==
    {[NoFilters EXCEPT !.city = c, !.maxPrice = hi, !.sort = s] :
        c \in {Undef, Str(A)},
        hi \in {Undef, Str(<<>>), Str(<<"1", "x">>)},
        s \in {"price_asc", "price_desc", "area_desc", "newest"}}

MixedFilters ==
    {[q |-> q, city |-> c, type |-> ty, minPrice |-> lo, maxPrice |-> hi,
      beds |-> b, sort |-> NoValue] :
        q \in {Undef, Str(<<" ", "b">>)},
        c \in {Undef, Str(A)},
        ty \in {Undef, Str(HOUSE)},
        lo \in {Undef, Str(<<"1">>)},
        hi \in {Undef, Str(<<"2">>), Str(<<"-">>)},
        b \in {Undef, Str(<<"1">>)}}

SearchFilters == TextFilters \cup NumericFilters \cup SortedFilters \cup MixedFilters

InitEngine ==
    /\ bindings = [HYPERDRIVE |-> FALSE, DB |-> FALSE]
    /\ env = [FreshEnv(bindings) EXCEPT !.MOCK_DATA = TRUE]
    /\ req = NoRequest
    /\ pc = "idle"
    /\ branch = "none"
    /\ dbRun = NotRun
    /\ mockRun = NotRun
    /\ dbStarts = 0
    /\ mockStarts = 0
    /\ logs = <<>>
    /\ ret = NoReturn
    /\ res = NoResponse
    /\ dataset = <<>>
    /\ call = NoCall

\* The provider's collection grows by one listing, before any call is made.
LoadSearchListing(l) ==
    /\ call.op = "none"
    /\ Len(dataset) < MaxLen
    /\ dataset' = Append(dataset, l)
    /\ UNCHANGED <<selectorVars, call>>

\* getListingsList(c, filters) over c.env.MOCK_DATA.  A call reads nothing an
\* earlier call left behind but the collection, so one call per behaviour is
\* followed.
CallGetListingsList(f) ==
    LET run == GetListingsList(dataset, f)
    IN /\ call.op = "none"
       /\ call' = [op |-> "list", filters |-> f, id |-> <<>>, data |-> dataset,
                   res |-> run.res]
       /\ dataset' = run.MOCK_DATA
       /\ UNCHANGED selectorVars

NextSearch ==
    \/ \E l \in SearchPool : LoadSearchListing(l)
    \/ \E f \in SearchFilters : CallGetListingsList(f)

SpecSearch == InitEngine /\ [][NextSearch]_vars

\* ------------------------------------------------------------------------
\* getListingsList: claims C6 and C7, under SpecSearch
\* ------------------------------------------------------------------------
\* The k-th smallest index of a set of indices.
KthOf(idx, k) == CHOOSE i \in idx : Cardinality({j \in idx : j < i}) = k - 1

\* result holds exactly the elements of data at the indices idx, each once,
\* in the order of data.
IsSelection(result, data, idx) ==
    /\ Len(result) = Cardinality(idx)
    /\ \A k \in 1..Len(result) : result[k] = data[KthOf(idx, k)]

\* A numeric parameter that is present, not empty, and that Number() reads.
HasNumber(p) == p.def /\ p.s # <<>> /\ ~NumberOf(p.s).nan

HasText(p) == p.def /\ p.s # <<>>

\* The predicates of every parameter but q.
SatisfiesFields(x, f) ==
    /\ HasText(f.city) => x.city = f.city.s
    /\ HasText(f.type) => x.type = f.type.s
    /\ HasNumber(f.minPrice) => x.price >= NumberOf(f.minPrice.s).n
    /\ HasNumber(f.maxPrice) => x.price <= NumberOf(f.maxPrice.s).n
    /\ HasNumber(f.beds) => OrZero(x.beds) >= NumberOf(f.beds.s).n

\* q as given, compared without regard to case.
SatisfiesQAsGiven(x, f) ==
    HasText(f.q) => Includes(SearchText(x), ToLowerCase(f.q.s))

\* q with its surrounding white space removed; nothing left means no q.
SatisfiesQTrimmed(x, f) ==
    HasText(f.q) /\ Trim(f.q.s) # <<>> =>
        Includes(SearchText(x), ToLowerCase(Trim(f.q.s)))

Unsorted(f) == f.sort \notin {"price_asc", "price_desc", "area_desc", "newest"}

Listed == call.res.body.listings

\* C6, as claimed: with no (or an unrecognized) sort key, the result is
\* exactly the listings that satisfy every specified predicate, q being a
\* case-insensitive substring of the listing's text, each once and in
\* collection order.
C6_ResultIsExactlyTheMatches ==
    (call.op = "list" /\ Unsorted(call.filters)) =>
        IsSelection(Listed, call.data,
            {i \in 1..Len(call.data) :
                /\ SatisfiesQAsGiven(call.data[i], call.filters)
                /\ SatisfiesFields(call.data[i], call.filters)})

\* C6, amended: the same, q being compared after its surrounding white space
\* is removed, and a q that is only white space imposing no restriction.
C6_ResultIsExactlyTheTrimmedMatches ==
    (call.op = "list" /\ Unsorted(call.filters)) =>
        /\ call.res.status = 200
        /\ IsSelection(Listed, call.data,
            {i \in 1..Len(call.data) :
                /\ SatisfiesQTrimmed(call.data[i], call.filters)
                /\ SatisfiesFields(call.data[i], call.filters)})
        /\ call.data = <<>> => Listed = <<>>

\* C6 witness: a q with a leading space together with a price bound keeps
\* some listings of the collection and drops others.
C6_Witness ==
    /\ call.op = "list" /\ Unsorted(call.filters)
    /\ call.filters.q = Str(<<" ", "b">>)
    /\ HasNumber(call.filters.minPrice)
    /\ Len(Listed) >= 2
    /\ Len(Listed) < Len(call.data)

\* A value the stage must skip: absent, empty, or not read by Number().
Unusable(p) == ~p.def \/ p.s = <<>> \/ NumberOf(p.s).nan

TEN == <<"1", "0">>
TWO == <<"2">>

\* The listings the mock dataset provider can supply for the related calls;
\* ids are unique.
RelatedPool ==
    { Listing(1, <<"a">>, A, Undef, FLAT, 100, NoField, NoField, NoField),
      Listing(2, <<"b">>, A, Undef, HOUSE, 200, NoField, NoField, NoField),
      Listing(3, <<"c">>, A, Undef, FLAT, 150, NoField, NoField, NoField),
      Listing(4, <<"d">>, A, Undef, FLAT, 50, NoField, NoField, NoField),
      Listing(5, <<"e">>, A, Undef, FLAT, 100, NoField, NoField, NoField),
      Listing(6, <<"f">>, TEN, Undef, FLAT, 300, NoField, NoField, NoField),
      Listing(7, <<"g">>, TWO, Undef, HOUSE, 150, NoField, NoField, NoField) }

\* The :id path parameter, a string.
RelatedIds == {<<"1">>, <<"3", "x">>, <<" ", "6">>, <<"9">>, <<"x">>}

\* The provider's collection grows by one listing with a new id, before any call.
LoadRelatedListing(l) ==
    /\ call.op = "none"
    /\ Len(dataset) < MaxRelated
    /\ \A i \in 1..Len(dataset) : dataset[i].id # l.id
    /\ dataset' = Append(dataset, l)
    /\ UNCHANGED <<selectorVars, call>>

\* getRelatedListingData(c, listingId) over c.env.MOCK_DATA.  One call per
\* behaviour is followed, as for getListingsList.
CallGetRelatedListingData(id) ==
    LET run == GetRelatedListingData(dataset, id)
    IN /\ call.op = "none"
       /\ call' = [op |-> "related", filters |-> NoFilters, id |-> id,
                   data |-> dataset, res |-> run.res]
       /\ dataset' = run.MOCK_DATA
       /\ UNCHANGED selectorVars

NextRelated ==
    \/ \E l \in RelatedPool : LoadRelatedListing(l)
    \/ \E id \in RelatedIds : CallGetRelatedListingData(id)

SpecRelated == InitEngine /\ [][NextRelated]_vars

\* ------------------------------------------------------------------------
\* getRelatedListingData: claims C8, C9 and C10, under SpecRelated
\* ------------------------------------------------------------------------
Bundle == call.res.body

TargetId == ParseInt(call.id)

\* The call is a related call whose target id is in the collection.
TargetPresent ==
    /\ call.op = "related"
    /\ ~TargetId.nan
    /\ \E i \in 1..Len(call.data) : call.data[i].id = TargetId.n

Target == call.data[CHOOSE i \in 1..Len(call.data) : call.data[i].id = TargetId.n]

Min(a, b) == IF a < b THEN a ELSE b

\* result holds the elements of data at the first (at most n) indices of idx.
IsFirstOf(result, data, idx, n) ==
    /\ Len(result) = Min(n, Cardinality(idx))
    /\ \A k \in 1..Len(result) : result[k] = data[KthOf(idx, k)]

Others == {i \in 1..Len(call.data) : call.data[i].id # TargetId.n}

SameCity == {i \in Others : call.data[i].city = Target.city}

SameType == {i \in Others : call.data[i].type = Target.type}

WithoutTarget(list) ==
    /\ Len(list) <= 3
    /\ \A k \in 1..Len(list) : list[k].id # TargetId.n

\* C8: for a target in the collection, none of relatedInCity, relatedByType
\* and similarPrice holds the target, each has at most 3 elements, and
\* relatedInCity and relatedByType are the first 3 other listings of the
\* target's city and type, in collection order.
C8_RelatedListsExcludeTarget ==
    TargetPresent =>
        /\ call.res.status = 200
        /\ WithoutTarget(Bundle.relatedInCity)
        /\ WithoutTarget(Bundle.relatedByType)
        /\ WithoutTarget(Bundle.similarPrice)
        /\ IsFirstOf(Bundle.relatedInCity, call.data, SameCity, 3)
        /\ IsFirstOf(Bundle.relatedByType, call.data, SameType, 3)

\* C8 witness: more than 3 other listings share the target's city and only 3
\* of them are returned, beside 3 listings of the target's type that are not
\* the same 3.
C8_Witness ==
    /\ TargetPresent
    /\ Cardinality(SameCity) > 3 /\ Len(Bundle.relatedInCity) = 3
    /\ Len(Bundle.relatedByType) = 3
    /\ Bundle.relatedByType # Bundle.relatedInCity

Distance(i) == Abs(call.data[i].price - Target.price)

\* The place of listing i among the others, by distance and then by position.
Rank(i) ==
    1 + Cardinality({j \in Others :
            Distance(j) < Distance(i) \/ (Distance(j) = Distance(i) /\ j < i)})

\* C9: for a target in the collection, similarPrice is the first 3 of the
\* other listings by ascending price distance to the target, equal distances
\* in collection order; and the collection is as it was before the call.
C9_SimilarPriceIsStableNearest ==
    TargetPresent =>
        /\ Len(Bundle.similarPrice) = Min(3, Cardinality(Others))
        /\ \A k \in 1..Len(Bundle.similarPrice) :
               \E i \in Others : Rank(i) = k /\ Bundle.similarPrice[k] = call.data[i]
        /\ dataset = call.data

PositionOf(x) == CHOOSE i \in 1..Len(call.data) : call.data[i] = x

\* C9 witness: two of the three listings returned are at the same distance,
\* and the result is not in collection order.
C9_Witness ==
    /\ TargetPresent
    /\ Len(Bundle.similarPrice) = 3
    /\ \E k \in 1..2 :
           /\ Abs(Bundle.similarPrice[k].price - Target.price)
                = Abs(Bundle.similarPrice[k + 1].price - Target.price)
           /\ Bundle.similarPrice[k].price # Bundle.similarPrice[k + 1].price
    /\ \E k \in 1..2 :
           PositionOf(Bundle.similarPrice[k]) > PositionOf(Bundle.similarPrice[k + 1])

FirstAt(keys, key) == CHOOSE i \in 1..Len(keys) : keys[i] = key /\ \A j \in 1..(i - 1) : keys[j] # key

\* stats, a sequence of [key, count], is the tally of keys: one entry per
\* distinct key, each with its number of occurrences, by descending count,
\* equal counts in the order the keys first occur.
IsTallyOf(stats, keys) ==
    /\ Len(stats) = Cardinality({keys[i] : i \in 1..Len(keys)})
    /\ {stats[k].key : k \in 1..Len(stats)} = {keys[i] : i \in 1..Len(keys)}
    /\ \A k \in 1..Len(stats) :
           stats[k].count = Cardinality({i \in 1..Len(keys) : keys[i] = stats[k].key})
    /\ \A k, m \in 1..Len(stats) :
           k < m =>
               \/ stats[k].count > stats[m].count
               \/ /\ stats[k].count = stats[m].count
                  /\ FirstAt(keys, stats[k].key) < FirstAt(keys, stats[m].key)

\* C10: for a target in the collection, cityStats and typeStats are the
\* tallies of the city and type values of the whole collection: one entry per
\* distinct value, counts adding up to the collection size, by descending
\* count, equal counts in first-encountered order, whatever the key strings.
C10_StatsAreStableTallies ==
    TargetPresent =>
        /\ IsTallyOf([k \in 1..Len(Bundle.cityStats) |->
                        [key |-> Bundle.cityStats[k].city,
                         count |-> Bundle.cityStats[k].count]],
                     [i \in 1..Len(call.data) |-> call.data[i].city])
        /\ IsTallyOf([k \in 1..Len(Bundle.typeStats) |->
                        [key |-> Bundle.typeStats[k].type,
                         count |-> Bundle.typeStats[k].count]],
                     [i \in 1..Len(call.data) |-> call.data[i].type])

====
